---- MODULE Spec2Model ----
(***************************************************************************)
(* SpendTracker: the expenses provider (src/components/ExpensesContext.tsx) *)
(* and the submitting screen (src/app/(tabs)/index.tsx) as a state machine. *)
(*                                                                         *)
(* Amounts are integers in thousandths of a rupee, so that the rounding to  *)
(* two decimals (Math.round(x * 100) / 100) is a real operation; a stored   *)
(* amount is a multiple of 10.  Time is an integer clock (Date.now()); a    *)
(* calendar day is TicksPerDay clock values.  Ids are the decimal strings   *)
(* of clock values and are modelled by the number they spell.               *)
(*                                                                         *)
(* React state is read through closures: a callback sees the `expenses` of  *)
(* the render in which it was called, also after an await.  Every call      *)
(* therefore carries the sequence it captured (field snap).                 *)
(***************************************************************************)
EXTENDS Integers, Sequences, FiniteSets, TLC

\* ------------------------------------------------------------------ bounds
MaxLen == 2
MaxClock == 5
MaxCalls == 3
MaxQueue == 2
MaxFreeCalls == 2
MaxFails == 1

\* ------------------------------------------------- calendar of the model
\* A day is two clock values.  Day 1 is Saturday the 1st of a 30-day month,
\* so a week and a day start at day 2 and the month started at day 1.  The
\* provider is constructed at clock 4 (day 2); records of earlier runs carry
\* clock 3 (day 1): inside the current month, outside the current week.
\* 0 is no clock value, no day and no id: it stands for a missing field.
Day(t) == t \div 2

DayStart(d) == d * 2

Weekday(d) == (d + 5) % 7

DayOfMonth(d) == ((d + 29) % 30) + 1

\* ------------------------------------------------------------- inputs
Categories == {"food", "other"}
DescInputs == {" ", "a "}
AmountInputs == {0, 4, 10}

NoBudget == [set |-> FALSE, amount |-> 0, period |-> "none", limits |-> <<>>]

BudgetChoices ==
    { [set |-> TRUE, amount |-> 20, period |-> "monthly",
       limits |-> <<[category |-> "food", limit |-> 10]>>],
      [set |-> TRUE, amount |-> 10, period |-> "weekly", limits |-> <<>>] }

\* ------------------------------------------------------------- helpers
Range(s) == { s[i] : i \in 1..Len(s) }

RECURSIVE MapReplace(_, _, _)
MapReplace(s, id, rec) ==
    IF s = <<>> THEN <<>>
    ELSE <<IF Head(s).id = id THEN rec ELSE Head(s)>> \o MapReplace(Tail(s), id, rec)

RECURSIVE SumAmounts(_)
SumAmounts(s) == IF s = <<>> THEN 0 ELSE Head(s).amount + SumAmounts(Tail(s))

Trim(d) == IF d = " " THEN "" ELSE IF d = "a " THEN "a" ELSE d

Round2(m) == ((m + 5) \div 10) * 10

\* getBudgetStatus, lines 196-212: the first instant of the current period.
StartOfPeriod(period, t) ==
    CASE period = "daily" -> DayStart(Day(t))
      [] period = "weekly" -> DayStart(Day(t) - Weekday(Day(t)))
      [] period = "monthly" -> DayStart(Day(t) - (DayOfMonth(Day(t)) - 1))
      [] OTHER -> t

\* expense.timestamp || new Date(expense.date).getTime()
EffectiveTimestamp(r) == IF r.timestamp # 0 THEN r.timestamp ELSE DayStart(r.date)

InPeriod(r, b, t) == EffectiveTimestamp(r) >= StartOfPeriod(b.period, t)

PeriodExpenses(exps, b, t) == SelectSeq(exps, LAMBDA r : InPeriod(r, b, t))

CategoryTotal(exps, c) == SumAmounts(SelectSeq(exps, LAMBDA r : r.category = c))

\* budget.categoryLimits?.[category]: 0 stands for undefined.
LimitOf(b, c) ==
    IF \E i \in 1..Len(b.limits) : b.limits[i].category = c
    THEN LET i == CHOOSE j \in 1..Len(b.limits) : b.limits[j].category = c
         IN b.limits[i].limit
    ELSE 0

Max(a, b) == IF a >= b THEN a ELSE b

\* categoryTotals[c] || 0: a category without a key counts 0.
Lookup(cts, c) == IF c \in DOMAIN cts THEN cts[c] ELSE 0

\* GetBudgetStatus whose isOverBudget looks at the period total only
GetBudgetStatusTotalOnly(exps, b, t) ==
    IF ~b.set
    THEN [total |-> 0, remaining |-> 0,
          categoryTotals |-> [c \in {} |-> 0], isOverBudget |-> FALSE]
    ELSE LET pe == PeriodExpenses(exps, b, t)
             total == SumAmounts(pe)
             cts == [c \in { pe[i].category : i \in 1..Len(pe) }
                       |-> CategoryTotal(pe, c)]
         IN [total |-> total,
             remaining |-> Max(0, b.amount - total),
             categoryTotals |-> cts,
             isOverBudget |-> total > b.amount]

\* GetBudgetStatus whose categoryTotals run over the records of all time
GetBudgetStatusAllTimeCategories(exps, b, t) ==
    IF ~b.set
    THEN [total |-> 0, remaining |-> 0,
          categoryTotals |-> [c \in {} |-> 0], isOverBudget |-> FALSE]
    ELSE LET pe == PeriodExpenses(exps, b, t)
             total == SumAmounts(pe)
             cts == [c \in { exps[i].category : i \in 1..Len(exps) }
                       |-> CategoryTotal(exps, c)]
         IN [total |-> total,
             remaining |-> Max(0, b.amount - total),
             categoryTotals |-> cts,
             isOverBudget |->
                 \/ total > b.amount
                 \/ \E i \in 1..Len(b.limits) :
                        Lookup(cts, b.limits[i].category) > b.limits[i].limit]

\* The keys of categoryTotals are the categories of the period's records (222).
GetBudgetStatus(exps, b, t) ==
    IF ~b.set
    THEN [total |-> 0, remaining |-> 0,
          categoryTotals |-> [c \in {} |-> 0], isOverBudget |-> FALSE]
    ELSE LET pe == PeriodExpenses(exps, b, t)
             total == SumAmounts(pe)
             cts == [c \in { pe[i].category : i \in 1..Len(pe) }
                       |-> CategoryTotal(pe, c)]
         IN [total |-> total,
             remaining |-> Max(0, b.amount - total),
             categoryTotals |-> cts,
             isOverBudget |->
                 \/ total > b.amount
                 \/ \E i \in 1..Len(b.limits) :
                        Lookup(cts, b.limits[i].category) > b.limits[i].limit]

\* ------------------------------------------------------------------ state
VARIABLES
    expenses,        \* useState<Expense[]>: the in-memory sequence
    budget,          \* useState<Budget | null>
    loading,         \* useState(true)
    error,           \* useState<string | null>; "null" stands for null
    storage,         \* AsyncStorage, key @spendtracker_expenses
    storedBudget,    \* AsyncStorage, key @spendtracker_budget
    timers,          \* armed setTimeout callbacks of saveToStorage, oldest first
    pendingSaveRef,  \* index in timers of pendingSaveRef.current, 0: none or spent
    shouldSaveRef,   \* shouldSaveRef.current
    writeQ,          \* storage requests in flight, served in the order issued
    confirms,        \* open 'Budget Warning' dialogs
    now,             \* the clock as last read by a call
    calls,           \* number of calls made so far (bounded by MaxCalls)
    fails,           \* number of storage requests that failed (MaxFails)
    loaded,          \* how loadStoredData ended: "pending", "ok" or "failed"
    last,            \* the last step of a call or of the load, and its record
    dateFilter,      \* two.tsx useState('all')
    startDate,       \* two.tsx useState<Date | null>(null): a day, 0 for null
    endDate,         \* two.tsx useState<Date | null>(null): a day, 0 for null
    datePickerMode,  \* two.tsx useState<'start' | 'end'>('start')
    showDatePicker,  \* two.tsx useState(false)
    alerts,          \* the failure alerts (Alert.alert('Error', ...)) shown by the
                     \* step recorded in last, in the order shown
    mounted          \* the provider is mounted

vars == <<expenses, budget, loading, error, storage, storedBudget, timers,
          pendingSaveRef, shouldSaveRef, writeQ, confirms, now,
          calls, fails, loaded, last,
          dateFilter, startDate, endDate, datePickerMode, showDatePicker,
          alerts, mounted>>

\* The state of the analysis screen (two.tsx 211-215).
screenVars == <<dateFilter, startDate, endDate, datePickerMode, showDatePicker>>

NoRec == [id |-> 0, description |-> "", amount |-> 0, date |-> 0,
          category |-> "", timestamp |-> 0]

Absent == [kind |-> "absent", elems |-> <<>>]

Garbage == [kind |-> "garbage", elems |-> <<>>]

\* JSON.stringify(data) of a sequence of records
Stringify(data) == [kind |-> "array", elems |-> data]

\* A record written by an earlier run of the program.
OldRec == [id |-> 3, description |-> "a", amount |-> 10, date |-> 1,
           category |-> "food", timestamp |-> 3]

\* What the two keys hold when the provider is constructed.
InitStores ==
    { <<Absent, NoBudget>>, <<Garbage, NoBudget>> }
      \cup { <<Stringify(<<OldRec>>), b>> : b \in BudgetChoices }

\* A suspended call or request: the closure's sequence (snap), the sequence
\* it writes (data), the record it is about, and whether it was made while
\* the load was still pending (early).
Op(kind, snap, data, rec) ==
    [kind |-> kind, snap |-> snap, data |-> data, rec |-> rec, early |-> loading]

Ev(ev, rec) == [ev |-> ev, rec |-> rec]

Init ==
    /\ expenses = <<>>
    /\ budget = NoBudget
    /\ loading = TRUE
    /\ error = "null"
    /\ \E st \in InitStores : storage = st[1] /\ storedBudget = st[2]
    /\ timers = <<>>
    /\ pendingSaveRef = 0
    /\ shouldSaveRef = FALSE
    /\ writeQ = <<Op("load", <<>>, <<>>, NoRec)>>
    /\ confirms = <<>>
    /\ now = 4
    /\ calls = 0
    /\ fails = 0
    /\ loaded = "pending"
    /\ last = Ev("init", NoRec)
    /\ dateFilter = "all"
    /\ startDate = 0
    /\ endDate = 0
    /\ datePickerMode = "start"
    /\ showDatePicker = FALSE
    /\ alerts = <<>>
    /\ mounted = TRUE

\* ------------------------------------------------- the save effect, 134-171
RemoveAt(s, i) == [j \in 1..(Len(s) - 1) |-> IF j < i THEN s[j] ELSE s[j + 1]]

\* clearTimeout(pendingSaveRef.current)
ClearPending(ts, ref) == IF ref # 0 THEN RemoveAt(ts, ref) ELSE ts

\* The effect of lines 162-171 run for a render with sequence exps: the cleanup
\* of the previous run, then saveToStorage(exps) when loaded and non-empty.
\* Result: the timers, pendingSaveRef and shouldSaveRef afterwards.
SaveEffect(exps, ld, ts, ref, should) ==
    LET cleared == ClearPending(ts, ref)
    IN IF ~ld /\ Len(exps) > 0
       THEN [timers |-> Append(cleared, exps), ref |-> Len(cleared) + 1, should |-> TRUE]
       ELSE [timers |-> cleared, ref |-> 0, should |-> should]

\* setExpenses(exps) followed by the render and its effect.
SetExpenses(exps, ld) ==
    LET e == SaveEffect(exps, ld, timers, pendingSaveRef, shouldSaveRef)
    IN /\ expenses' = exps
       /\ timers' = e.timers
       /\ pendingSaveRef' = e.ref
       /\ shouldSaveRef' = e.should

Room == Len(writeQ) + Len(confirms) < MaxQueue

Quiescent == writeQ = <<>> /\ confirms = <<>> /\ timers = <<>> /\ ~loading

\* The first MaxFreeCalls calls come at any moment, the later ones only when
\* nothing is pending.
CanCall == calls < MaxCalls /\ Room /\ (calls >= MaxFreeCalls => Quiescent)

\* A call reads the clock: t is Date.now(), not before the previous reading.
Clock == { t \in {now, now + 1} : t <= MaxClock }

Called(t) ==
    /\ calls' = calls + 1
    /\ fails' = fails
    /\ now' = t
    /\ loaded' = loaded
    /\ UNCHANGED <<screenVars, mounted>>

\* ------------------------------------------------------------- addExpense
\* AddWarning with the category limit compared before the new amount is added
AddWarningStaleCategory(exps, b, t, amount, category) ==
    LET st == GetBudgetStatus(exps, b, t)
        newTotal == st.total + amount
        categoryTotal == Lookup(st.categoryTotals, category)
    IN IF ~b.set THEN ""
       ELSE IF newTotal > b.amount THEN "budget"
       ELSE IF LimitOf(b, category) # 0 /\ categoryTotal > LimitOf(b, category)
       THEN "category"
       ELSE ""

\* lines 252-255: the projected period total and category total
AddProjection(exps, b, t, amount, category) ==
    LET st == GetBudgetStatus(exps, b, t)
    IN [newTotal |-> st.total + amount,
        categoryTotal |-> Lookup(st.categoryTotals, category) + amount]

\* lines 252-265: the text of the warning, "" when there is none
AddWarning(exps, b, t, amount, category) ==
    LET p == AddProjection(exps, b, t, amount, category)
        newTotal == p.newTotal
        categoryTotal == p.categoryTotal
    IN IF ~b.set THEN ""
       ELSE IF newTotal > b.amount THEN "budget"
       ELSE IF LimitOf(b, category) # 0 /\ categoryTotal > LimitOf(b, category)
       THEN "category"
       ELSE ""

\* lines 245-250
NewExpense(input, t) ==
    [id |-> t, description |-> input.description, amount |-> input.amount,
     date |-> input.date, category |-> input.category, timestamp |-> t]

\* line 288
AddResult(exps, rec) == Append(exps, rec)

\* addExpense up to its first await (242-289)
AddExpenseCall(input, t) ==
    LET rec == NewExpense(input, t)
        w == AddWarning(expenses, budget, t, input.amount, input.category)
    IN /\ Len(expenses) < MaxLen
       /\ error' = "null"
       /\ IF w # ""
          THEN /\ confirms' = Append(confirms, Op("add", expenses, <<>>, rec))
               /\ writeQ' = writeQ
               /\ last' = Ev("addAsk", rec)
               /\ alerts' = <<>>
          ELSE /\ writeQ' = Append(writeQ,
                       Op("add", expenses, AddResult(expenses, rec), rec))
               /\ confirms' = confirms
               /\ last' = Ev("addIssue", rec)
               /\ alerts' = <<>>
       /\ UNCHANGED <<expenses, budget, loading, storage, storedBudget, timers,
                      pendingSaveRef, shouldSaveRef>>

\* handleSubmit, index.tsx 444-467: validation and rounding of the form
ValidInput(d, a) == Trim(d) # "" /\ a > 0

FormData(d, a, c, t) ==
    [description |-> Trim(d), amount |-> Round2(a), category |-> c, date |-> Day(t)]

SubmitAdd(d, a, c, t) ==
    /\ CanCall
    /\ Called(t)
    /\ IF ValidInput(d, a)
       THEN AddExpenseCall(FormData(d, a, c, t), t)
       ELSE /\ last' = Ev("rejected", NoRec)
            /\ alerts' = <<>>
            /\ UNCHANGED <<expenses, budget, loading, error, storage, storedBudget,
                           timers, pendingSaveRef, shouldSaveRef, writeQ, confirms>>

\* ---------------------------------------------------------- updateExpense
\* HasId that only looks whether there are records at all
HasIdAnyRecord(exps, id) == exps # <<>>

\* oldExpense / expenseToDelete is found (313-314, 377-380)
HasId(exps, id) == \E i \in 1..Len(exps) : exps[i].id = id

\* index of the first record with this id, 0 when there is none
IndexOf(exps, id) ==
    LET idx == { i \in 1..Len(exps) : exps[i].id = id }
    IN IF idx = {} THEN 0 ELSE CHOOSE i \in idx : \A j \in idx : i <= j

\* expenses.find(e => e.id === id); NoRec stands for undefined
Find(exps, id) == IF IndexOf(exps, id) = 0 THEN NoRec ELSE exps[IndexOf(exps, id)]

\* lines 316-326: amountDiff and the projected period total and category total
UpdateProjection(exps, b, t, old, amount, category) ==
    LET st == GetBudgetStatus(exps, b, t)
        amountDiff == amount - old.amount
    IN [amountDiff |-> amountDiff,
        newTotal |-> st.total + amountDiff,
        categoryTotal |-> Lookup(st.categoryTotals, category)
                            + (IF category = old.category THEN amountDiff ELSE amount)]

\* lines 316-336
UpdateWarning(exps, b, t, old, amount, category) ==
    LET p == UpdateProjection(exps, b, t, old, amount, category)
        amountDiff == p.amountDiff
        newTotal == p.newTotal
        categoryTotal == p.categoryTotal
    IN IF ~(b.set /\ amountDiff > 0) THEN ""
       ELSE IF newTotal > b.amount THEN "budget"
       ELSE IF LimitOf(b, category) # 0 /\ categoryTotal > LimitOf(b, category)
       THEN "category"
       ELSE ""

\* lines 306-311
UpdatedExpense(id, input, t) ==
    [id |-> id, description |-> input.description, amount |-> input.amount,
     date |-> input.date, category |-> input.category, timestamp |-> t]

\* line 359
UpdateResult(exps, id, rec) == MapReplace(exps, id, rec)

\* updateExpense up to its first await (303-360)
UpdateExpenseCall(id, input, t) ==
    LET rec == UpdatedExpense(id, input, t)
    IN IF ~HasId(expenses, id)
       THEN /\ error' = "Expense not found"
            /\ last' = Ev("updNotFound", [NoRec EXCEPT !.id = id])
            /\ alerts' = <<"Failed to update expense", "Failed to save expense">>
            /\ UNCHANGED <<expenses, budget, loading, storage, storedBudget, timers,
                           pendingSaveRef, shouldSaveRef, writeQ, confirms>>
       ELSE LET old == Find(expenses, id)
                w == UpdateWarning(expenses, budget, t, old,
                                   input.amount, input.category)
            IN /\ error' = "null"
               /\ IF w # ""
                  THEN /\ confirms' = Append(confirms,
                              Op("update", expenses, <<>>, rec))
                       /\ writeQ' = writeQ
                       /\ last' = Ev("updAsk", rec)
                       /\ alerts' = <<>>
                  ELSE /\ writeQ' = Append(writeQ,
                              Op("update", expenses,
                                 UpdateResult(expenses, id, rec), rec))
                       /\ confirms' = confirms
                       /\ last' = Ev("updIssue", rec)
                       /\ alerts' = <<>>
               /\ UNCHANGED <<expenses, budget, loading, storage, storedBudget,
                              timers, pendingSaveRef, shouldSaveRef>>

Ids == 3..MaxClock

SubmitUpdate(id, d, a, c, t) ==
    /\ CanCall
    /\ Called(t)
    /\ IF ValidInput(d, a)
       THEN UpdateExpenseCall(id, FormData(d, a, c, t), t)
       ELSE /\ last' = Ev("rejected", NoRec)
            /\ alerts' = <<>>
            /\ UNCHANGED <<expenses, budget, loading, error, storage, storedBudget,
                           timers, pendingSaveRef, shouldSaveRef, writeQ, confirms>>

\* ------------------------------------------- the 'Budget Warning' dialog
\* 'Add Anyway' / 'Update Anyway': the call resumes at line 288 / 359 with the
\* sequence it captured.
Confirm(i) ==
    /\ i \in 1..Len(confirms)
    /\ LET op == confirms[i]
           data == IF op.kind = "add" THEN AddResult(op.snap, op.rec)
                   ELSE UpdateResult(op.snap, op.rec.id, op.rec)
       IN /\ writeQ' = Append(writeQ, [op EXCEPT !.data = data])
          /\ last' = Ev(IF op.kind = "add" THEN "addConfirm" ELSE "updConfirm", op.rec)
          /\ alerts' = <<>>
    /\ confirms' = RemoveAt(confirms, i)
    /\ UNCHANGED <<expenses, budget, loading, error, storage, storedBudget, timers,
                   pendingSaveRef, shouldSaveRef, now, calls, fails, loaded,
                   screenVars, mounted>>

\* Decline that resumes the call as 'Add Anyway' does
DeclineResumes(i) ==
    /\ i \in 1..Len(confirms)
    /\ LET op == confirms[i]
           data == IF op.kind = "add" THEN AddResult(op.snap, op.rec)
                   ELSE UpdateResult(op.snap, op.rec.id, op.rec)
       IN /\ writeQ' = Append(writeQ, [op EXCEPT !.data = data])
          /\ last' = Ev(IF op.kind = "add" THEN "addDecline" ELSE "updDecline", op.rec)
          /\ alerts' = <<>>
    /\ confirms' = RemoveAt(confirms, i)
    /\ UNCHANGED <<expenses, budget, loading, error, storage, storedBudget, timers,
                   pendingSaveRef, shouldSaveRef, now, calls, fails, loaded,
                   screenVars, mounted>>

\* 'Cancel': the promise rejects, the catch of 291-294 / 362-365 rethrows
\* without setError or alert, and the catch of handleSubmit (index.tsx 482-484)
\* shows its alert.
Decline(i) ==
    /\ i \in 1..Len(confirms)
    /\ last' = Ev(IF confirms[i].kind = "add" THEN "addDecline" ELSE "updDecline",
                  confirms[i].rec)
    /\ alerts' = <<"Failed to save expense">>
    /\ confirms' = RemoveAt(confirms, i)
    /\ UNCHANGED <<expenses, budget, loading, error, storage, storedBudget, timers,
                   pendingSaveRef, shouldSaveRef, writeQ, now, calls, fails, loaded,
                   screenVars, mounted>>

\* ---------------------------------------------------------- deleteExpense
\* line 383
DeleteResult(exps, id) == SelectSeq(exps, LAMBDA r : r.id # id)

\* deleteExpense up to its await (372-388)
DeleteExpenseCall(id) ==
    /\ CanCall
    /\ Called(now)
    /\ IF ~HasId(expenses, id)
       THEN /\ error' = "Expense not found"
            /\ last' = Ev("delNotFound", [NoRec EXCEPT !.id = id])
            /\ alerts' = <<"Failed to delete expense", "Failed to delete expense">>
            /\ UNCHANGED <<expenses, budget, loading, storage, storedBudget, timers,
                           pendingSaveRef, shouldSaveRef, writeQ, confirms>>
       ELSE LET updated == DeleteResult(expenses, id)
            IN /\ error' = "null"
               /\ SetExpenses(updated, loading)
               /\ writeQ' = Append(writeQ,
                      Op("delete", expenses, updated, Find(expenses, id)))
               /\ last' = Ev("delIssue", Find(expenses, id))
               /\ alerts' = <<>>
               /\ UNCHANGED <<budget, loading, storage, storedBudget, confirms>>

\* ------------------------------------------------------- clearAllExpenses
ClearAllCall ==
    /\ CanCall
    /\ Called(now)
    /\ error' = "null"
    /\ writeQ' = Append(writeQ, Op("clear", expenses, <<>>, NoRec))
    /\ last' = Ev("clearIssue", NoRec)
    /\ alerts' = <<>>
    /\ UNCHANGED <<expenses, budget, loading, storage, storedBudget, timers,
                   pendingSaveRef, shouldSaveRef, confirms>>

\* A storage request settles; ok is whether AsyncStorage resolved.
Settled(ok) ==
    /\ ~ok => fails < MaxFails
    /\ fails' = IF ok THEN fails ELSE fails + 1
    /\ calls' = calls
    /\ UNCHANGED <<screenVars, mounted>>

\* ------------------------------------------------- saveToStorage timers
\* A debounce (300 ms) or retry (3000 ms) timer fires: save() issues the write
\* of the sequence the timer was armed with (141-144).
TimerFire(i) ==
    /\ i \in 1..Len(timers)
    /\ Len(writeQ) < MaxQueue
    /\ writeQ' = Append(writeQ, Op("save", timers[i], timers[i], NoRec))
    /\ timers' = RemoveAt(timers, i)
    /\ pendingSaveRef' = IF pendingSaveRef = i THEN 0
                         ELSE IF pendingSaveRef > i THEN pendingSaveRef - 1
                         ELSE pendingSaveRef
    /\ last' = last
    /\ alerts' = alerts
    /\ UNCHANGED <<expenses, budget, loading, error, storage, storedBudget,
                   shouldSaveRef, confirms, now, calls, fails, loaded, screenVars,
                   mounted>>

\* SaveDone whose catch arms no retry timer
SaveDoneNoRetry(ok) ==
    /\ Settled(ok)
    /\ writeQ # <<>> /\ Head(writeQ).kind = "save"
    /\ writeQ' = Tail(writeQ)
    /\ IF ok
       THEN /\ storage' = Stringify(Head(writeQ).data)
            /\ shouldSaveRef' = FALSE
            /\ UNCHANGED <<timers, pendingSaveRef>>
       ELSE UNCHANGED <<timers, pendingSaveRef, storage, shouldSaveRef>>
    /\ last' = last
    /\ alerts' = alerts
    /\ UNCHANGED <<expenses, budget, loading, error, storedBudget, confirms, now, loaded>>

\* The write of save() settles (144-152): on failure a retry timer is armed
\* and pendingSaveRef is overwritten with it.
SaveDone(ok) ==
    /\ Settled(ok)
    /\ writeQ # <<>> /\ Head(writeQ).kind = "save"
    /\ writeQ' = Tail(writeQ)
    /\ IF ok
       THEN /\ storage' = Stringify(Head(writeQ).data)
            /\ shouldSaveRef' = FALSE
            /\ last' = last
            /\ alerts' = alerts
            /\ UNCHANGED <<timers, pendingSaveRef>>
       ELSE /\ timers' = Append(timers, Head(writeQ).data)
            /\ pendingSaveRef' = Len(timers) + 1
            /\ last' = last
            /\ alerts' = alerts
            /\ UNCHANGED <<storage, shouldSaveRef>>
    /\ UNCHANGED <<expenses, budget, loading, error, storedBudget, confirms, now, loaded>>

\* ------------------------------------------ the direct writes settle
\* AddDone that puts the new sequence in memory although the write failed
AddDoneCommitsOnFailure(ok) ==
    /\ Settled(ok)
    /\ writeQ # <<>> /\ Head(writeQ).kind = "add"
    /\ writeQ' = Tail(writeQ)
    /\ IF ok
       THEN /\ storage' = Stringify(Head(writeQ).data)
            /\ SetExpenses(Head(writeQ).data, loading)
            /\ last' = Ev("addOk", Head(writeQ).rec)
            /\ alerts' = <<>>
            /\ error' = error
       ELSE /\ error' = "storage"
            /\ SetExpenses(Head(writeQ).data, loading)
            /\ last' = Ev("addFail", Head(writeQ).rec)
            /\ alerts' = <<"Failed to add expense", "Failed to save expense">>
            /\ UNCHANGED <<storage>>
    /\ UNCHANGED <<budget, loading, storedBudget, confirms, now, loaded>>

\* addExpense 289-299
AddDone(ok) ==
    /\ Settled(ok)
    /\ writeQ # <<>> /\ Head(writeQ).kind = "add"
    /\ writeQ' = Tail(writeQ)
    /\ IF ok
       THEN /\ storage' = Stringify(Head(writeQ).data)
            /\ SetExpenses(Head(writeQ).data, loading)
            /\ last' = Ev("addOk", Head(writeQ).rec)
            /\ alerts' = <<>>
            /\ error' = error
       ELSE /\ error' = "storage"
            /\ last' = Ev("addFail", Head(writeQ).rec)
            /\ alerts' = <<"Failed to add expense", "Failed to save expense">>
            /\ UNCHANGED <<expenses, storage, timers, pendingSaveRef, shouldSaveRef>>
    /\ UNCHANGED <<budget, loading, storedBudget, confirms, now, loaded>>

\* updateExpense 360-370
UpdateDone(ok) ==
    /\ Settled(ok)
    /\ writeQ # <<>> /\ Head(writeQ).kind = "update"
    /\ writeQ' = Tail(writeQ)
    /\ IF ok
       THEN /\ storage' = Stringify(Head(writeQ).data)
            /\ SetExpenses(Head(writeQ).data, loading)
            /\ last' = Ev("updOk", Head(writeQ).rec)
            /\ alerts' = <<>>
            /\ error' = error
       ELSE /\ error' = "storage"
            /\ last' = Ev("updFail", Head(writeQ).rec)
            /\ alerts' = <<"Failed to update expense", "Failed to save expense">>
            /\ UNCHANGED <<expenses, storage, timers, pendingSaveRef, shouldSaveRef>>
    /\ UNCHANGED <<budget, loading, storedBudget, confirms, now, loaded>>

\* DeleteDone without the rollback of line 392
DeleteDoneNoRollback(ok) ==
    /\ Settled(ok)
    /\ writeQ # <<>> /\ Head(writeQ).kind = "delete"
    /\ writeQ' = Tail(writeQ)
    /\ IF ok
       THEN /\ storage' = Stringify(Head(writeQ).data)
            /\ last' = Ev("delOk", Head(writeQ).rec)
            /\ alerts' = <<>>
            /\ UNCHANGED <<expenses, error, timers, pendingSaveRef, shouldSaveRef>>
       ELSE /\ error' = "Failed to save changes"
            /\ last' = Ev("delFail", Head(writeQ).rec)
            /\ alerts' = <<"Failed to delete expense", "Failed to delete expense">>
            /\ UNCHANGED <<expenses, storage, timers, pendingSaveRef, shouldSaveRef>>
    /\ UNCHANGED <<budget, loading, storedBudget, confirms, now, loaded>>

\* deleteExpense 387-400
DeleteDone(ok) ==
    /\ Settled(ok)
    /\ writeQ # <<>> /\ Head(writeQ).kind = "delete"
    /\ writeQ' = Tail(writeQ)
    /\ IF ok
       THEN /\ storage' = Stringify(Head(writeQ).data)
            /\ last' = Ev("delOk", Head(writeQ).rec)
            /\ alerts' = <<>>
            /\ UNCHANGED <<expenses, error, timers, pendingSaveRef, shouldSaveRef>>
       ELSE /\ SetExpenses(Head(writeQ).snap, loading)
            /\ error' = "Failed to save changes"
            /\ last' = Ev("delFail", Head(writeQ).rec)
            /\ alerts' = <<"Failed to delete expense", "Failed to delete expense">>
            /\ storage' = storage
    /\ UNCHANGED <<budget, loading, storedBudget, confirms, now, loaded>>

\* ClearDone that empties the sequence whether or not the removal succeeded
ClearDoneEmptiesAnyway(ok) ==
    /\ Settled(ok)
    /\ writeQ # <<>> /\ Head(writeQ).kind = "clear"
    /\ writeQ' = Tail(writeQ)
    /\ SetExpenses(<<>>, loading)
    /\ IF ok
       THEN /\ storage' = Absent
            /\ last' = Ev("clearOk", NoRec)
            /\ alerts' = <<>>
            /\ error' = error
       ELSE /\ error' = "storage"
            /\ last' = Ev("clearFail", NoRec)
            /\ alerts' = <<"Failed to clear expenses">>
            /\ UNCHANGED <<storage>>
    /\ UNCHANGED <<budget, loading, storedBudget, confirms, now, loaded>>

\* clearAllExpenses 406-413
ClearDone(ok) ==
    /\ Settled(ok)
    /\ writeQ # <<>> /\ Head(writeQ).kind = "clear"
    /\ writeQ' = Tail(writeQ)
    /\ IF ok
       THEN /\ storage' = Absent
            /\ SetExpenses(<<>>, loading)
            /\ last' = Ev("clearOk", NoRec)
            /\ alerts' = <<>>
            /\ error' = error
       ELSE /\ error' = "storage"
            /\ last' = Ev("clearFail", NoRec)
            /\ alerts' = <<"Failed to clear expenses">>
            /\ UNCHANGED <<expenses, storage, timers, pendingSaveRef, shouldSaveRef>>
    /\ UNCHANGED <<budget, loading, storedBudget, confirms, now, loaded>>

\* ----------------------------------------------------------- loadStoredData
\* JSON values under the expenses key.  An element of a stored array is a
\* record of the fields it has: null has none of the fields of an expense, an
\* object may lack its amount, and a description that is not a string carries
\* its type in typeofDescription.
NotArray == [kind |-> "notArray", elems |-> <<>>]

Null == [null |-> TRUE]

IsNull(e) == "null" \in DOMAIN e

TypeofDescription(e) ==
    IF "typeofDescription" \in DOMAIN e THEN e.typeofDescription ELSE "string"

\* lines 83-88
ElemOk(e) ==
    /\ e.id # 0
    /\ e.description # ""
    /\ "amount" \in DOMAIN e
    /\ e.date # 0

\* expense.id of null (84) and expense.description.trim() of a value that is
\* not a string (91) raise a TypeError.
Throws(elems) ==
    \E i \in 1..Len(elems) :
        \/ IsNull(elems[i])
        \/ ElemOk(elems[i]) /\ TypeofDescription(elems[i]) # "string"

\* ParseThrows that also rejects a payload that is not an array
ParseThrowsNotArray(payload) ==
    \/ payload.kind \in {"garbage", "notArray"}
    \/ payload.kind = "array" /\ Throws(payload.elems)

\* The inner try of lines 79-99 ends in its catch: JSON.parse or a callback
\* of filter / map has thrown.
ParseThrows(payload) ==
    \/ payload.kind = "garbage"
    \/ payload.kind = "array" /\ Throws(payload.elems)

\* lines 89-96
LoadMap(e) ==
    [id |-> e.id, description |-> Trim(e.description), amount |-> Round2(e.amount),
     date |-> e.date,
     category |-> IF e.category = "" THEN "other" ELSE e.category,
     timestamp |-> IF e.timestamp # 0 THEN e.timestamp ELSE DayStart(e.date)]

RECURSIVE Validated(_)
Validated(elems) ==
    IF elems = <<>> THEN <<>>
    ELSE (IF ElemOk(Head(elems)) THEN <<LoadMap(Head(elems))>> ELSE <<>>)
           \o Validated(Tail(elems))

\* lines 107-118
LoadedBudget(cur) == IF storedBudget.set THEN storedBudget ELSE cur

\* Both reads settle (73-76) and the payloads are taken in (78-124).  A
\* payload whose parsing or validation throws continues with the removal of
\* the key (102); a payload that is not an array is passed over (81).
LoadDone(ok) ==
    /\ Settled(ok)
    /\ writeQ # <<>> /\ Head(writeQ).kind = "load"
    /\ IF ~ok
       THEN /\ error' = "Error loading data"
            /\ loading' = FALSE
            /\ writeQ' = Tail(writeQ)
            /\ SetExpenses(expenses, FALSE)
            /\ last' = Ev("loadFail", NoRec)
            /\ alerts' = <<>>
            /\ loaded' = "failed"
            /\ UNCHANGED <<budget>>
       ELSE /\ error' = "null"
            /\ CASE ParseThrows(storage) ->
                       /\ writeQ' = Append(Tail(writeQ),
                              Op("loadRemove", expenses, <<>>, NoRec))
                       /\ last' = Ev("loadCorrupt", NoRec)
                       /\ alerts' = <<>>
                       /\ UNCHANGED <<expenses, budget, loading, loaded, timers,
                                      pendingSaveRef, shouldSaveRef>>
                 [] storage.kind = "array" ->
                       /\ SetExpenses(Validated(storage.elems), FALSE)
                       /\ budget' = LoadedBudget(budget)
                       /\ loading' = FALSE
                       /\ writeQ' = Tail(writeQ)
                       /\ loaded' = "ok"
                       /\ last' = Ev("loadOk", NoRec)
                       /\ alerts' = <<>>
                 [] OTHER ->
                       /\ SetExpenses(expenses, FALSE)
                       /\ budget' = LoadedBudget(budget)
                       /\ loading' = FALSE
                       /\ writeQ' = Tail(writeQ)
                       /\ loaded' = "ok"
                       /\ last' = Ev("loadOk", NoRec)
                       /\ alerts' = <<>>
    /\ UNCHANGED <<storage, storedBudget, confirms, now>>

\* The removal of line 102 settles: setExpenses([]) and the budget part on
\* success, the outer catch (119-121) on failure; finally loading is false.
LoadRemoveDone(ok) ==
    /\ Settled(ok)
    /\ writeQ # <<>> /\ Head(writeQ).kind = "loadRemove"
    /\ writeQ' = Tail(writeQ)
    /\ loading' = FALSE
    /\ IF ok
       THEN /\ storage' = Absent
            /\ SetExpenses(<<>>, FALSE)
            /\ budget' = LoadedBudget(budget)
            /\ error' = error
            /\ loaded' = "ok"
            /\ last' = Ev("loadOk", NoRec)
            /\ alerts' = <<>>
       ELSE /\ error' = "storage"
            /\ SetExpenses(expenses, FALSE)
            /\ loaded' = "failed"
            /\ last' = Ev("loadFail", NoRec)
            /\ alerts' = <<>>
            /\ UNCHANGED <<storage, budget>>
    /\ UNCHANGED <<storedBudget, confirms, now>>

Next ==
    \/ \E d \in DescInputs, a \in AmountInputs, c \in Categories, t \in Clock :
           SubmitAdd(d, a, c, t)
    \/ \E id \in Ids, d \in DescInputs, a \in AmountInputs, c \in Categories,
          t \in Clock : SubmitUpdate(id, d, a, c, t)
    \/ \E id \in Ids : DeleteExpenseCall(id)
    \/ ClearAllCall
    \/ \E i \in 1..MaxQueue : Confirm(i)
    \/ \E i \in 1..MaxQueue : Decline(i)
    \/ \E i \in 1..Len(timers) : TimerFire(i)
    \/ \E ok \in BOOLEAN : SaveDone(ok)
    \/ \E ok \in BOOLEAN : AddDone(ok)
    \/ \E ok \in BOOLEAN : UpdateDone(ok)
    \/ \E ok \in BOOLEAN : DeleteDone(ok)
    \/ \E ok \in BOOLEAN : ClearDone(ok)
    \/ \E ok \in BOOLEAN : LoadDone(ok)
    \/ \E ok \in BOOLEAN : LoadRemoveDone(ok)

Spec == Init /\ [][Next]_vars

\* ------------------------------------------- the load over any payload
\* Elements a stored array may hold: a well-formed record, null, a record
\* whose description is a number, a record without amount, a record with an
\* empty description, a record without category and timestamp.
NumberDescription ==
    [id |-> 2, description |-> "5", typeofDescription |-> "number", amount |-> 10,
     date |-> 1, category |-> "food", timestamp |-> 2]

NoAmount == [id |-> 2, description |-> "a", date |-> 1, category |-> "food",
             timestamp |-> 2]

EmptyDescription == [OldRec EXCEPT !.id = 2, !.description = ""]

Bare == [id |-> 2, description |-> "a ", amount |-> 14, date |-> 1,
         category |-> "", timestamp |-> 0]

LoadElems == {OldRec, Null, NumberDescription, NoAmount, EmptyDescription, Bare}

RECURSIVE SeqsUpTo(_, _)
SeqsUpTo(S, n) ==
    IF n = 0 THEN {<<>>}
    ELSE LET shorter == SeqsUpTo(S, n - 1)
         IN shorter \cup { Append(q, e) : q \in shorter, e \in S }

LoadStores ==
    {Absent, Garbage, NotArray}
      \cup { Stringify(q) : q \in SeqsUpTo(LoadElems, MaxLen) }

LoadInit ==
    /\ expenses = <<>>
    /\ budget = NoBudget
    /\ loading = TRUE
    /\ error = "null"
    /\ storage \in LoadStores
    /\ storedBudget \in {NoBudget} \cup BudgetChoices
    /\ timers = <<>>
    /\ pendingSaveRef = 0
    /\ shouldSaveRef = FALSE
    /\ writeQ = <<Op("load", <<>>, <<>>, NoRec)>>
    /\ confirms = <<>>
    /\ now = 4
    /\ calls = 0
    /\ fails = 0
    /\ loaded = "pending"
    /\ last = Ev("init", NoRec)
    /\ dateFilter = "all"
    /\ startDate = 0
    /\ endDate = 0
    /\ datePickerMode = "start"
    /\ showDatePicker = FALSE
    /\ alerts = <<>>
    /\ mounted = TRUE

LoadNext ==
    \/ \E ok \in BOOLEAN : LoadDone(ok)
    \/ \E ok \in BOOLEAN : LoadRemoveDone(ok)
    \/ \E i \in 1..Len(timers) : TimerFire(i)
    \/ \E ok \in BOOLEAN : SaveDone(ok)

LoadSpec == LoadInit /\ [][LoadNext]_vars

\* The provider is torn down once the load has finished: the cleanup of the
\* save effect runs (166-170) and clears the timer pendingSaveRef holds.
\* Requests in flight and the closures of save() live on.
Unmount ==
    /\ mounted
    /\ ~loading
    /\ mounted' = FALSE
    /\ timers' = ClearPending(timers, pendingSaveRef)
    /\ pendingSaveRef' = 0
    /\ UNCHANGED <<expenses, budget, loading, error, storage, storedBudget,
                   shouldSaveRef, writeQ, confirms, now, calls, fails, loaded, last,
                   screenVars, alerts>>

TeardownNext ==
    \/ LoadNext
    \/ Unmount

TeardownSpec == LoadInit /\ [][TeardownNext]_vars

\* The load and the save effect as the JavaScript runtime schedules them: an
\* armed timer fires, and a storage request in flight settles.
LoadLiveSpec ==
    /\ LoadInit
    /\ [][LoadNext]_vars
    /\ WF_vars(\E ok \in BOOLEAN : LoadDone(ok))
    /\ WF_vars(\E ok \in BOOLEAN : LoadRemoveDone(ok))
    /\ WF_vars(\E i \in 1..Len(timers) : TimerFire(i))
    /\ WF_vars(\E ok \in BOOLEAN : SaveDone(ok))

TypeOK ==
    /\ Len(expenses) <= MaxLen + 1
    /\ pendingSaveRef \in {0, Len(timers)}

\* ------------------------------------------- the analysis screen, two.tsx
\* two.tsx 9-16, in the order of the array
categories == <<"food", "transport", "shopping", "bills", "entertainment", "other">>

\* The calendar day of a record (272-273).
ExpenseDay(r) == Day(EffectiveTimestamp(r))

\* filterExpenses (264-299); t is the instant of new Date(), sd and ed are
\* startDate and endDate.  A month of the model's calendar has 30 days.
FilterExpenses(allExpenses, f, sd, ed, t) ==
    LET today == Day(t)
        keep(r) ==
            CASE f = "today" -> ExpenseDay(r) = today
              [] f = "week" -> ExpenseDay(r) >= today - 7 /\ ExpenseDay(r) <= today
              [] f = "month" -> ExpenseDay(r) >= today - 30 /\ ExpenseDay(r) <= today
              [] f = "custom" ->
                    IF sd = 0 \/ ed = 0 THEN TRUE
                    ELSE ExpenseDay(r) >= sd /\ ExpenseDay(r) <= ed
              [] OTHER -> TRUE
    IN SelectSeq(allExpenses, keep)

\* The days of the chart (24-75), oldest first.
ChartDays(f, sd, ed, t) ==
    LET today == Day(t)
        from(first, n) == [i \in 1..n |-> first + i - 1]
    IN CASE f = "today" -> <<today>>
         [] f = "week" -> from(today - 6, 7)
         [] f = "month" -> from(today - 29, 30)
         [] f = "custom" -> IF sd # 0 /\ ed # 0 THEN from(sd, ed - sd + 1)
                            ELSE <<today>>
         [] OTHER -> from(today - 29, 30)

\* getChartData (18-104): one total per day; the labels are the days.
GetChartData(exps, f, sd, ed, t) ==
    LET days == ChartDays(f, sd, ed, t)
    IN [labels |-> days,
        data |-> [i \in 1..Len(days) |->
                    Round2(SumAmounts(SelectSeq(exps,
                                LAMBDA r : ExpenseDay(r) = days[i])))]]

\* Math.round(a / b) for a >= 0, b > 0
RoundDiv(a, b) == (2 * a + b) \div (2 * b)

\* getCategoryData (106-125): one entry per known category.
GetCategoryData(exps) ==
    LET cat(r) == IF r.category = "" THEN "other" ELSE r.category
        categoryTotal(c) == SumAmounts(SelectSeq(exps, LAMBDA r : cat(r) = c))
    IN [i \in 1..Len(categories) |->
          [name |-> categories[i],
           amount |-> Round2(categoryTotal(categories[i])),
           percentage |->
               IF categoryTotal(categories[i]) = 0 THEN 0
               ELSE RoundDiv(100 * categoryTotal(categories[i]), SumAmounts(exps))]]

\* getTotalSpent (127-129)
GetTotalSpent(exps) == Round2(SumAmounts(exps))

\* The memoised values of a render (302-319).
filteredExpenses == FilterExpenses(expenses, dateFilter, startDate, endDate, now)

chartData == GetChartData(filteredExpenses, dateFilter, startDate, endDate, now)

pieData == SelectSeq(GetCategoryData(filteredExpenses), LAMBDA item : item.amount > 0)

totalSpent == GetTotalSpent(filteredExpenses)

\* Math.ceil(a / b) for b > 0
CeilDiv(a, b) == -((-a) \div b)

\* totalDays of getMoneySavingTip (138-156); a day has two instants.
TotalDays(exps, f) ==
    CASE f = "today" -> 1
      [] f = "week" -> 7
      [] f = "month" -> 30
      [] f = "custom" ->
            IF Len(exps) >= 2
            THEN Max(1, CeilDiv(EffectiveTimestamp(exps[Len(exps)])
                                  - EffectiveTimestamp(exps[1]), 2))
            ELSE 1
      [] OTHER -> 30

\* categoryData.filter(cat => cat.amount > 0).sort((a, b) => b.amount - a.amount)[0]
\* (162-164): the sort is stable, so the first of the largest; an entry of
\* amount 0 stands for undefined.
HighestSpendingCategory(categoryData) ==
    LET spent == SelectSeq(categoryData, LAMBDA cat : cat.amount > 0)
    IN IF spent = <<>> THEN [name |-> "", amount |-> 0, percentage |-> 0]
       ELSE spent[CHOOSE i \in 1..Len(spent) :
                     /\ \A j \in 1..Len(spent) : spent[j].amount <= spent[i].amount
                     /\ \A j \in 1..(i - 1) : spent[j].amount < spent[i].amount]

\* expenses.slice(-3)
Recent(exps) == SubSeq(exps, Max(1, Len(exps) - 2), Len(exps))

\* The threshold of the daily average, 1000, in mills
DailyThreshold == 1000000

\* getMoneySavingTip (131-207): the icon of the tip returned.  The quotients
\* total / totalDays and sum / length are compared by cross-multiplication.
GetMoneySavingTip(exps, categoryData, f) ==
    LET totalDays == TotalDays(exps, f)
        total == GetTotalSpent(exps)
        highest == HighestSpendingCategory(categoryData)
        recentExpenses == Recent(exps)
        categoryCount == Len(SelectSeq(categoryData, LAMBDA cat : cat.amount > 0))
    IN IF Len(exps) = 0 THEN "lightbulb-o"
       ELSE IF highest.amount > 0 /\ highest.percentage > 50 THEN "warning"
       ELSE IF total > DailyThreshold * totalDays THEN "line-chart"
       ELSE IF 2 * SumAmounts(recentExpenses) * totalDays
                  > 3 * total * Len(recentExpenses)
       THEN "exclamation-triangle"
       ELSE IF categoryCount <= 2 /\ Len(exps) > 5 THEN "pie-chart"
       ELSE "check-circle"

\* two.tsx 321-324
savingTip == GetMoneySavingTip(filteredExpenses, pieData, dateFilter)

\* BudgetManager, line 34: the status shown beside the analysis
budgetStatus == GetBudgetStatus(expenses, budget, now)

\* The filter buttons 'All Time', 'Today', 'Last 7 Days', 'Last 30 Days' (349-396)
PressFilter(f) ==
    /\ dateFilter' = f
    /\ startDate' = 0
    /\ endDate' = 0
    /\ UNCHANGED <<datePickerMode, showDatePicker>>
    /\ UNCHANGED <<expenses, budget, loading, error, storage, storedBudget, timers,
                   pendingSaveRef, shouldSaveRef, writeQ, confirms, now, calls,
                   fails, loaded, last, alerts, mounted>>

\* 'Custom Range' (397-403)
PressCustom ==
    /\ dateFilter' = "custom"
    /\ datePickerMode' = "start"
    /\ showDatePicker' = TRUE
    /\ UNCHANGED <<startDate, endDate>>
    /\ UNCHANGED <<expenses, budget, loading, error, storage, storedBudget, timers,
                   pendingSaveRef, shouldSaveRef, writeQ, confirms, now, calls,
                   fails, loaded, last, alerts, mounted>>

\* The date range line shown under the custom filter (412-419)
PressDateRange ==
    /\ dateFilter = "custom"
    /\ datePickerMode' = "start"
    /\ showDatePicker' = TRUE
    /\ UNCHANGED <<dateFilter, startDate, endDate>>
    /\ UNCHANGED <<expenses, budget, loading, error, storage, storedBudget, timers,
                   pendingSaveRef, shouldSaveRef, writeQ, confirms, now, calls,
                   fails, loaded, last, alerts, mounted>>

\* Days the picker can return; 0 stands for a dismissed picker.
PickDays == {0, 3, 10, 11}

\* handleDateSelect (217-262) on iOS, where the picker stays open between the
\* two dates; d is the day picked.
HandleDateSelect(d) ==
    /\ showDatePicker
    /\ IF d = 0
       THEN /\ showDatePicker' = FALSE
            /\ UNCHANGED <<dateFilter, startDate, endDate, datePickerMode>>
       ELSE IF datePickerMode = "start"
       THEN IF (endDate # 0 /\ d > endDate) \/ DayStart(d) > now
            THEN UNCHANGED screenVars
            ELSE /\ startDate' = d
                 /\ datePickerMode' = "end"
                 /\ UNCHANGED <<dateFilter, endDate, showDatePicker>>
       ELSE IF (startDate # 0 /\ d < startDate) \/ DayStart(d) > now
            THEN UNCHANGED screenVars
            ELSE /\ endDate' = d
                 /\ showDatePicker' = FALSE
                 /\ dateFilter' = "custom"
                 /\ UNCHANGED <<startDate, datePickerMode>>
    /\ UNCHANGED <<expenses, budget, loading, error, storage, storedBudget, timers,
                   pendingSaveRef, shouldSaveRef, writeQ, confirms, now, calls,
                   fails, loaded, last, alerts, mounted>>

\* Records as a load leaves them: of days 0, 3, 4, 9 and 10, of a known and
\* of a user-made category (index.tsx 508-524).
AnalyticsRecs ==
    { LoadMap([id |-> t, description |-> "a", amount |-> 10, date |-> Day(t),
               category |-> c, timestamp |-> t]) :
        t \in {1, 6, 8, 19, 20}, c \in {"food", "gym"} }

AnalyticsBudgets ==
    {NoBudget} \cup BudgetChoices
      \cup { [set |-> TRUE, amount |-> 10, period |-> "daily",
              limits |-> <<[category |-> "gym", limit |-> 10]>>] }

\* The provider after a load, at rest, seen by the screen on day 10.
AnalyticsInit ==
    /\ expenses \in SeqsUpTo(AnalyticsRecs, MaxLen)
    /\ budget \in AnalyticsBudgets
    /\ loading = FALSE
    /\ error = "null"
    /\ storage = (IF expenses = <<>> THEN Absent ELSE Stringify(expenses))
    /\ storedBudget = budget
    /\ timers = <<>>
    /\ pendingSaveRef = 0
    /\ shouldSaveRef = FALSE
    /\ writeQ = <<>>
    /\ confirms = <<>>
    /\ now \in {20}
    /\ calls = 0
    /\ fails = 0
    /\ loaded = "ok"
    /\ last = Ev("loadOk", NoRec)
    /\ dateFilter = "all"
    /\ startDate = 0
    /\ endDate = 0
    /\ datePickerMode = "start"
    /\ showDatePicker = FALSE
    /\ alerts = <<>>
    /\ mounted = TRUE

AnalyticsNext ==
    \/ \E f \in {"all", "today", "week", "month"} : PressFilter(f)
    \/ PressCustom
    \/ PressDateRange
    \/ \E d \in PickDays : HandleDateSelect(d)

AnalyticsSpec == AnalyticsInit /\ [][AnalyticsNext]_vars

\* ------------------------------------------------------------ the claims
\* JSON.parse of the payload under the expenses key, an absent key read as [].
StoredSeq == IF storage.kind = "array" THEN storage.elems ELSE <<>>

\* The request at the head of the queue settles in this step.
Settles(kind) ==
    writeQ # <<>> /\ Head(writeQ).kind = kind /\ writeQ' = Tail(writeQ)

\* A call is made in this step.
CallStep == calls' = calls + 1

\* C1: a mutation called after the load that commits (add, update) or rolls
\* back (delete) after having been suspended keeps the effects of the mutations
\* that committed meanwhile: a record they put in the sequence stays, a record
\* they took out stays out (records with the id the resuming mutation is
\* itself about aside).
C1_NoLostEffect ==
    [][((\/ Settles("add") /\ last'.ev = "addOk"
         \/ Settles("update") /\ last'.ev = "updOk"
         \/ Settles("delete") /\ last'.ev = "delFail")
        /\ ~Head(writeQ).early) =>
          LET op == Head(writeQ)
          IN /\ \A r \in Range(expenses) \ Range(op.snap) :
                    r.id # op.rec.id => r \in Range(expenses')
             /\ \A r \in Range(op.snap) \ Range(expenses) :
                    r.id # op.rec.id => r \notin Range(expenses')]_vars

\* C2: once the load has succeeded and no call, dialog, timer or write is
\* pending, the array under the expenses key is the in-memory sequence.
C2_StorageMirrorsMemory ==
    (Quiescent /\ loaded = "ok" /\ storage.kind \in {"array", "absent"})
        => StoredSeq = expenses

\* The evaluator's period total of a sequence at instant t.
PeriodTotal(exps, t) == GetBudgetStatus(exps, budget, t).total

\* C3: the call that ends in a declined confirmation changes neither the
\* in-memory sequence nor the stored array nor the period total, and issues no
\* write: this holds of the step that opens the dialog and of the step that
\* declines it.
C3_DeclineChangesNothing ==
    [][(\/ CallStep /\ last'.ev \in {"addAsk", "updAsk"}
        \/ Len(confirms') < Len(confirms) /\ last'.ev \in {"addDecline", "updDecline"})
        => /\ expenses' = expenses
           /\ storage' = storage
           /\ writeQ' = writeQ
           /\ timers' = timers
           /\ budget' = budget
           /\ PeriodTotal(expenses', now') = PeriodTotal(expenses, now')]_vars

C3_Witness ==
    /\ last.ev = "updDecline"
    /\ HasId(expenses, last.rec.id)
    /\ StoredSeq = expenses

\* The total of the in-period records of one category, as the claims state it.
ClaimCategoryTotal(exps, b, t, c) ==
    SumAmounts(SelectSeq(exps, LAMBDA r : r.category = c /\ InPeriod(r, b, t)))

ClaimTotal(exps, b, t) == SumAmounts(SelectSeq(exps, LAMBDA r : InPeriod(r, b, t)))

HasLimit(b, c) == \E i \in 1..Len(b.limits) : b.limits[i].category = c

\* C4: addExpense asks for confirmation exactly when a budget is set and the
\* period total plus the new amount exceeds budget.amount, or the category of
\* the new record has a limit and its period total plus the new amount exceeds
\* the limit.
C4_AddAsksIffOverCap ==
    [][(CallStep /\ last'.ev \in {"addAsk", "addIssue"}) =>
          LET r == last'.rec
              over ==
                 /\ budget.set
                 /\ \/ ClaimTotal(expenses, budget, now') + r.amount > budget.amount
                    \/ /\ HasLimit(budget, r.category)
                       /\ ClaimCategoryTotal(expenses, budget, now', r.category)
                            + r.amount > LimitOf(budget, r.category)
          IN (last'.ev = "addAsk") <=> over]_vars

C4_Witness ==
    /\ last.ev = "addAsk"
    /\ budget.set
    /\ ClaimTotal(expenses, budget, now) + last.rec.amount <= budget.amount

\* C5: updateExpense asks for confirmation whenever committing the update
\* would move the period total from at or under budget.amount to over it, or
\* the period total of the record's new category from at or under its limit to
\* over it.
C5_UpdateAsksWhenCrossing ==
    [][(CallStep /\ last'.ev \in {"updAsk", "updIssue"}) =>
          LET r == last'.rec
              post == UpdateResult(expenses, r.id, r)
              crosses ==
                 /\ budget.set
                 /\ \/ /\ ClaimTotal(expenses, budget, now') <= budget.amount
                       /\ ClaimTotal(post, budget, now') > budget.amount
                    \/ /\ HasLimit(budget, r.category)
                       /\ ClaimCategoryTotal(expenses, budget, now', r.category)
                            <= LimitOf(budget, r.category)
                       /\ ClaimCategoryTotal(post, budget, now', r.category)
                            > LimitOf(budget, r.category)
          IN crosses => last'.ev = "updAsk"]_vars

\* C6: no two records of the in-memory sequence share an id.
C6_UniqueIds ==
    \A i, j \in 1..Len(expenses) : i # j => expenses[i].id # expenses[j].id

\* C7: every record in memory and in the persisted array has amount > 0.
C7_PositiveAmounts ==
    /\ \A i \in 1..Len(expenses) : expenses[i].amount > 0
    /\ \A i \in 1..Len(StoredSeq) : StoredSeq[i].amount > 0

Front(s) == SubSeq(s, 1, Len(s) - 1)

\* C8: after a successful add has appended its record, the delete of the id
\* the add assigned (no other call in between) leaves the in-memory sequence
\* equal to the sequence before the add.
C8_AddThenDeleteRestores ==
    [][(/\ CallStep
        /\ last.ev = "addOk"
        /\ last'.ev = "delIssue"
        /\ last'.rec.id = last.rec.id
        /\ expenses # <<>>
        /\ expenses[Len(expenses)] = last.rec)
        => expenses' = Front(expenses)]_vars

\* C9: an update or a delete that names an id absent from the in-memory
\* sequence fails with the not-found error, issues no write, opens no dialog
\* and leaves the in-memory sequence and the stored array unchanged.
C9_AbsentIdIsNotFound ==
    [][(/\ CallStep
        /\ last'.ev \in {"updNotFound", "updAsk", "updIssue",
                         "delNotFound", "delIssue"}
        /\ \A i \in 1..Len(expenses) : expenses[i].id # last'.rec.id)
        => /\ last'.ev \in {"updNotFound", "delNotFound"}
           /\ error' = "Expense not found"
           /\ writeQ' = writeQ
           /\ confirms' = confirms
           /\ expenses' = expenses
           /\ storage' = storage
           /\ timers' = timers]_vars

C9_Witness ==
    /\ last.ev = "updNotFound"
    /\ expenses # <<>>
    /\ error = "Expense not found"

\* C10: a successful update of an id that the sequence holds keeps the length
\* of the sequence, puts the superseding record (same id, the timestamp of the
\* call) at the position of the record it replaces and leaves every other
\* position unchanged.
C10_UpdateInPlace ==
    [][(Settles("update") /\ last'.ev = "updOk"
        /\ IndexOf(expenses, Head(writeQ).rec.id) # 0) =>
          LET r == Head(writeQ).rec
              pos == IndexOf(expenses, r.id)
          IN /\ Len(expenses') = Len(expenses)
             /\ expenses'[pos] = r
             /\ \A i \in 1..Len(expenses) : i # pos => expenses'[i] = expenses[i]]_vars

\* The storage request that settles in this step was rejected.
Rejected == fails' = fails + 1

\* C11: the delete of an id the sequence holds takes the record out of the
\* in-memory sequence at the call, while its write is still pending and the
\* stored array untouched; when that write is rejected the call fails with
\* 'Failed to save changes' and the in-memory sequence is again the sequence
\* the call found (the pending request carries it from the call step).
C11_DeleteOptimisticRollback ==
    [][/\ (CallStep /\ last'.ev = "delIssue") =>
             /\ expenses' = DeleteResult(expenses, last'.rec.id)
             /\ ~HasId(expenses', last'.rec.id)
             /\ storage' = storage
             /\ Len(writeQ') = Len(writeQ) + 1
             /\ writeQ'[Len(writeQ')].kind = "delete"
             /\ writeQ'[Len(writeQ')].snap = expenses
       /\ (Settles("delete") /\ Rejected) =>
             /\ last'.ev = "delFail"
             /\ error' = "Failed to save changes"
             /\ expenses' = Head(writeQ).snap
             /\ HasId(expenses', Head(writeQ).rec.id)
             /\ storage' = storage]_vars

C11_Witness ==
    /\ last.ev = "delFail"
    /\ HasId(expenses, last.rec.id)
    /\ error = "Failed to save changes"

\* C12: when the write of addExpense or updateExpense is rejected the call
\* fails, the error state is set, and the step changes neither the in-memory
\* sequence nor the stored array; a call that was alone leaves the sequence
\* it found.
C12_WriteFailureChangesNothing ==
    [][((Settles("add") \/ Settles("update")) /\ Rejected) =>
          /\ last'.ev = (IF Head(writeQ).kind = "add" THEN "addFail" ELSE "updFail")
          /\ error' # "null"
          /\ expenses' = expenses
          /\ storage' = storage
          /\ timers' = timers
          /\ (calls = 1 /\ ~Head(writeQ).early) => expenses' = Head(writeQ).snap]_vars

C12_Witness ==
    /\ last.ev = "addFail"
    /\ expenses # <<>>
    /\ error = "storage"
    /\ ~HasId(expenses, last.rec.id)

\* C13: clearAllExpenses leaves the in-memory sequence alone until its removal
\* has settled; it empties the sequence when the removal succeeded, and when
\* the removal is rejected the call fails, the error state is set and the
\* sequence is unchanged.
C13_ClearAfterRemoval ==
    [][/\ (CallStep /\ last'.ev = "clearIssue") =>
             expenses' = expenses /\ storage' = storage
       /\ (Settles("clear") /\ ~Rejected) =>
             expenses' = <<>> /\ storage' = Absent /\ last'.ev = "clearOk"
       /\ (Settles("clear") /\ Rejected) =>
             /\ last'.ev = "clearFail"
             /\ error' # "null"
             /\ expenses' = expenses
             /\ storage' = storage]_vars

C13_Witness ==
    /\ last.ev = "clearFail"
    /\ expenses # <<>>
    /\ error = "storage"

\* The two reads of loadStoredData settle, resolved, in this step.
LoadReads ==
    writeQ # <<>> /\ Head(writeQ).kind = "load" /\ writeQ' # writeQ /\ ~Rejected

\* An element as the claims want it kept: an object with an id, a non-empty
\* description that is text, a numeric amount and a date.
WellFormed(e) ==
    /\ ~IsNull(e)
    /\ e.id # 0
    /\ TypeofDescription(e) = "string" /\ e.description # ""
    /\ "amount" \in DOMAIN e
    /\ e.date # 0

RECURSIVE Kept(_)
Kept(elems) ==
    IF elems = <<>> THEN <<>>
    ELSE (IF WellFormed(Head(elems)) THEN <<LoadMap(Head(elems))>> ELSE <<>>)
           \o Kept(Tail(elems))

\* C17: when the reads of load resolve with an array, the in-memory sequence
\* becomes the well-formed elements of that array, in order and normalised,
\* whatever malformed elements stand beside them.
C17_LoadFiltersPerElement ==
    [][(LoadReads /\ storage.kind = "array") =>
          expenses' = Kept(storage.elems)]_vars

\* C18: once load has ended without a storage failure, the expenses key holds
\* neither an unparseable payload nor a payload that is not an array.
C18_CorruptKeyCleared ==
    loaded = "ok" => storage.kind \notin {"garbage", "notArray"}

\* C19: when the reads of load resolve with a payload that parses but is not
\* an array, load ends in that step with the error state null, the in-memory
\* sequence empty and loading false.
C19_NotArrayLoadsEmpty ==
    [][(LoadReads /\ storage.kind = "notArray") =>
          /\ error' = "null"
          /\ expenses' = <<>>
          /\ ~loading'
          /\ loaded' = "ok"
          /\ last'.ev = "loadOk"]_vars

C19_Witness ==
    /\ storage.kind = "notArray"
    /\ loaded = "ok"
    /\ ~loading
    /\ expenses = <<>>
    /\ error = "null"

\* C14: the status the evaluator returns for the records, budget and instant
\* of the state has isOverBudget true exactly when the period total exceeds
\* budget.amount or a category with a configured limit has a period total
\* above its limit; with no budget isOverBudget is false and total and
\* remaining are 0.
C14_IsOverBudgetExact ==
    IF budget.set
    THEN budgetStatus.isOverBudget <=>
           \/ ClaimTotal(expenses, budget, now) > budget.amount
           \/ \E i \in 1..Len(budget.limits) :
                  ClaimCategoryTotal(expenses, budget, now, budget.limits[i].category)
                    > budget.limits[i].limit
    ELSE /\ ~budgetStatus.isOverBudget
         /\ budgetStatus.total = 0
         /\ budgetStatus.remaining = 0

C14_Witness ==
    /\ budget.set
    /\ budgetStatus.isOverBudget
    /\ budgetStatus.total <= budget.amount

RECURSIVE SumOver(_, _)
SumOver(f, S) ==
    IF S = {} THEN 0
    ELSE LET c == CHOOSE x \in S : TRUE IN f[c] + SumOver(f, S \ {c})

\* C15: the categoryTotals of the evaluator sum to its total, the total is
\* the sum of the records whose timestamp is at or after the start of the
\* current period, and so is the total of every category.
C15_CategoryTotalsSumToTotal ==
    LET cts == budgetStatus.categoryTotals
    IN budget.set =>
         /\ SumOver(cts, DOMAIN cts) = budgetStatus.total
         /\ budgetStatus.total =
               SumAmounts(SelectSeq(expenses, LAMBDA r :
                   EffectiveTimestamp(r) >= StartOfPeriod(budget.period, now)))
         /\ \A i \in 1..Len(expenses) :
               Lookup(cts, expenses[i].category) =
                 ClaimCategoryTotal(expenses, budget, now, expenses[i].category)

C15_Witness ==
    /\ budget.set
    /\ budgetStatus.total > 0
    /\ \E i \in 1..Len(expenses) :
          /\ ~InPeriod(expenses[i], budget, now)
          /\ Lookup(budgetStatus.categoryTotals, expenses[i].category) > 0

RECURSIVE SumPie(_)
SumPie(items) == IF items = <<>> THEN 0 ELSE Head(items).amount + SumPie(Tail(items))

\* C16: the amounts of the category breakdown of the filtered records sum to
\* the filtered total.
C16_BreakdownSumsToTotal ==
    /\ SumPie(pieData) = totalSpent
    /\ SumPie(GetCategoryData(filteredExpenses)) = totalSpent

\* C20: under the week filter the filtered set is the records of the 7 days
\* ending today, in order, and the total is their sum.
C20_WeekIsSevenDays ==
    dateFilter = "week" =>
        LET today == Day(now)
            inWeek(r) == ExpenseDay(r) >= today - 6 /\ ExpenseDay(r) <= today
        IN /\ filteredExpenses = SelectSeq(expenses, inWeek)
           /\ totalSpent = Round2(SumAmounts(SelectSeq(expenses, inWeek)))
           /\ SumOver(chartData.data, DOMAIN chartData.data)
                 = SumAmounts(SelectSeq(expenses, inWeek))

\* C21: the step in which a confirmation is declined sets no error state and
\* shows no failure alert, neither in the provider nor in the submitting
\* screen.
C21_DeclineIsNotAFailure ==
    [][(Len(confirms') < Len(confirms) /\ last'.ev \in {"addDecline", "updDecline"})
         => error' = error /\ alerts' = <<>>]_vars

\* A timer of saveToStorage fires in this step and issues its write.
SaveIssued ==
    /\ Len(writeQ') = Len(writeQ) + 1
    /\ writeQ'[Len(writeQ')].kind = "save"

\* C22: a debounced or retried write is only ever issued for the sequence
\* that is in memory at that moment: none is issued for a snapshot that a
\* newer mutation has replaced.
C22_NoStaleWrite ==
    [][SaveIssued => writeQ'[Len(writeQ')].data = expenses]_vars

\* C23: a step that commits an add, an update, a delete or a clear after the
\* load and changes the in-memory sequence leaves exactly one timer armed, the
\* debounced write of the new sequence.
C23_MutationArmsWrite ==
    [][(/\ expenses' # expenses
        /\ ~loading
        /\ last'.ev \in {"addOk", "updOk", "delIssue", "clearOk"}
        /\ last' # last)
         => /\ Len(timers') = 1
            /\ pendingSaveRef' = 1
            /\ timers'[1] = expenses']_vars

\* C24: at most one save timer is armed.
C24_OneTimer == Len(timers) <= 1

\* C25: when the write of save() is rejected, a timer is armed with the
\* snapshot that write carried; and with no mutation and no teardown, a
\* snapshot waiting on a timer or in a write is eventually the stored value,
\* with no timer armed and no write in flight.
SaveRejected ==
    /\ writeQ # <<>>
    /\ Head(writeQ).kind = "save"
    /\ writeQ' = Tail(writeQ)
    /\ Rejected

SavePending == timers # <<>> \/ (writeQ # <<>> /\ Head(writeQ).kind = "save")

SaveWritten ==
    /\ timers = <<>>
    /\ writeQ = <<>>
    /\ pendingSaveRef = 0
    /\ storage = Stringify(expenses)

C25_RetryUntilWritten ==
    /\ [][SaveRejected => /\ Len(timers') = Len(timers) + 1
                           /\ timers'[Len(timers')] = Head(writeQ).data]_vars
    /\ SavePending ~> SaveWritten

\* The write of the loaded sequence failed once and the retry wrote it.
C25_Witness ==
    /\ fails = 1
    /\ loaded = "ok"
    /\ expenses # <<>>
    /\ ~shouldSaveRef
    /\ SaveWritten

\* C26: once the provider is torn down, no write of save() is issued.
C26_NoWriteAfterTeardown == [][~mounted => ~SaveIssued]_vars

\* C27: with a budget set, the period total and the category total that
\* addExpense and updateExpense project for their confirmation decision are
\* the total and the category total getBudgetStatus gives, at the instant of
\* the call, for the sequence with the mutation committed.
Committed(r) ==
    IF last'.ev \in {"addAsk", "addIssue"}
    THEN GetBudgetStatus(AddResult(expenses, r), budget, now')
    ELSE GetBudgetStatus(UpdateResult(expenses, r.id, r), budget, now')

Projected(r) ==
    IF last'.ev \in {"addAsk", "addIssue"}
    THEN AddProjection(expenses, budget, now', r.amount, r.category)
    ELSE UpdateProjection(expenses, budget, now', Find(expenses, r.id),
                          r.amount, r.category)

C27_ProjectionIsCommittedStatus ==
    [][(/\ CallStep
        /\ budget.set
        /\ last'.ev \in {"addAsk", "addIssue", "updAsk", "updIssue"})
         => LET r == last'.rec
            IN /\ Projected(r).newTotal = Committed(r).total
               /\ Projected(r).categoryTotal
                    = Lookup(Committed(r).categoryTotals, r.category)]_vars

\* C28: under the filters today, week, month, and custom with both bounds
\* set, every filtered record is counted in exactly one bucket of the chart,
\* and the buckets sum to the filtered total.
Bounded ==
    \/ dateFilter \in {"today", "week", "month"}
    \/ dateFilter = "custom" /\ startDate # 0 /\ endDate # 0

BucketsOf(r) == { k \in 1..Len(chartData.labels) : chartData.labels[k] = ExpenseDay(r) }

C28_BucketsCoverFiltered ==
    Bounded =>
        /\ \A i \in 1..Len(filteredExpenses) :
               Cardinality(BucketsOf(filteredExpenses[i])) = 1
        /\ SumOver(chartData.data, DOMAIN chartData.data) = totalSpent

\* The share of the filtered total held by category c is one half or more.
HoldsHalf(c) ==
    2 * CategoryTotal(filteredExpenses, c) >= SumAmounts(filteredExpenses)

FilteredCategories == { filteredExpenses[i].category : i \in 1..Len(filteredExpenses) }

\* The tip of the first rule of the decision table that matches.
FirstRule ==
    LET n == Len(filteredExpenses)
        days == TotalDays(filteredExpenses, dateFilter)
        recent == Recent(filteredExpenses)
    IN IF n = 0 THEN "lightbulb-o"
       ELSE IF \E c \in FilteredCategories : HoldsHalf(c) THEN "warning"
       ELSE IF totalSpent > DailyThreshold * days THEN "line-chart"
       ELSE IF 2 * SumAmounts(recent) * days > 3 * totalSpent * Len(recent)
       THEN "exclamation-triangle"
       ELSE IF Cardinality(FilteredCategories) <= 2 /\ n > 5 THEN "pie-chart"
       ELSE "check-circle"

\* C29: the tip shown is the tip of the first rule that matches, in the order
\* empty set, one category holding half or more, daily average over the
\* threshold, recent average over 1.5 times the daily average, at most two
\* categories with spend and more than five records, positive message.
C29_FirstMatchingRule == savingTip = FirstRule

\* C30: when the filtered set is not empty and one of the known categories
\* holds half or more of the filtered total, exactly half included, the tip
\* is the concentration warning.
C30_HalfIsConcentration ==
    (/\ filteredExpenses # <<>>
     /\ \E c \in Range(categories) : c \in FilteredCategories /\ HoldsHalf(c))
        => savingTip = "warning"

====
